---- MODULE Spec2Model ----
(***************************************************************************)
(* Model of nvvkhl::OptixDenoiserEngine (optix_denoiser.cpp): the frame    *)
(* counter and denoise cadence, the per-frame command recording of         *)
(* onRender, and the timeline-semaphore handoff between the Vulkan render  *)
(* queue and the CUDA/OptiX denoiser.                                      *)
(***************************************************************************)
EXTENDS Integers, Sequences, FiniteSets, TLC

(* ------------------------------ bounds --------------------------------- *)
\* largest value of Settings::maxFrames explored (the UI allows 1..1000000)
MaxMaxFrames == 4
\* largest value of Settings::denoiseEveryNFrames explored (the UI allows 1..500)
MaxEveryN == 2
\* number of denoise-active frames explored in one behaviour
MaxDenoise == 2
\* viewport sizes explored (width = height = s)
MaxSize == 2

(* ------------------------- program constants --------------------------- *)
\* std::array<CommandFrame, 3> m_commandFrames: "Max 3 frames in flight"
MaxFramesInFlight == 3

VARIABLES
  m_frame,               \* int m_frame
  maxFrames,             \* m_settings.maxFrames
  denoiseApply,          \* m_settings.denoiseApply
  denoiseFirstFrame,     \* m_settings.denoiseFirstFrame
  denoiseEveryNFrames,   \* m_settings.denoiseEveryNFrames
  m_fenceValue,          \* uint64_t m_fenceValue
  sceneValid,            \* m_scene->valid()
  camChanged,            \* ref_cam_matrix != m || ref_fov != fov
  supportsOptix,         \* NVP_SUPPORTS_OPTIX7 defined in this build
  pc,                    \* position of the CPU thread in the frame loop
  cmd,                   \* index of commandFrame.cmdBuffer being recorded
  rec,                   \* commands recorded in cmdBuffer[0], cmdBuffer[1]
  appWait,               \* wait semaphores added to the application frame
  appCmds,               \* command buffers prepended to the application frame
  gbufSize,              \* size of the five G-Buffers
  cudaSize,              \* size of the denoiser's Cuda buffers
  tonemapInput,          \* G-Buffer bound as the tonemapper input
  queue,                 \* batches submitted to the Vulkan queue, oldest first
  cuda,                  \* denoiser work on the Cuda stream, oldest first
  sem,                   \* counter of the timeline semaphore
  steps,                 \* history: steps onRender took in the current frame
  issued,                \* history: signal operations requested, in order
  waited,                \* history: wait operations requested, in order
  nden,                  \* history: number of denoise-active frames so far
  sub2,                  \* history: second command buffers submitted so far
  didReset,              \* history: the last handler called resetFrame
  ev,                    \* history: what the last step did (updateFrame, resize, destroy)
  denFrames,             \* history: frame indices denoised since the last resetFrame
  cfgFixed               \* history: no denoiser setting changed since the last resetFrame

settingsVars == <<maxFrames, denoiseApply, denoiseFirstFrame, denoiseEveryNFrames>>
envVars      == <<sceneValid, camChanged, supportsOptix>>
recVars      == <<cmd, rec, appWait, appCmds>>
bufVars      == <<gbufSize, cudaSize>>
gpuVars      == <<queue, cuda, sem>>
histVars     == <<issued, waited, nden, sub2>>
runVars      == <<denFrames, cfgFixed>>
vars == <<m_frame, settingsVars, m_fenceValue, envVars, pc, recVars, bufVars,
          tonemapInput, gpuVars, steps, histVars, didReset, ev, runVars>>

(* --------------------------- pure functions ---------------------------- *)
\* the % operator of C++ on int operands (truncated division)
CMod(a, b) == IF a >= 0 THEN a % b ELSE -((-a) % b)

\* faulty variant of needToDenoise: the final-frame test is missing
NeedToDenoiseNoFinal(apply, frame, maxF, first, everyN) ==
  IF apply
    THEN IF (~first) /\ frame = 0 THEN FALSE
         ELSE IF CMod(frame, everyN) = 0 THEN TRUE
         ELSE FALSE
    ELSE FALSE

\* faulty variant: frame 0 is denoised whatever denoiseFirstFrame is
NeedToDenoiseFrameZero(apply, frame, maxF, first, everyN) ==
  IF apply
    THEN IF frame = maxF THEN TRUE
         ELSE IF CMod(frame, everyN) = 0 THEN TRUE
         ELSE FALSE
    ELSE FALSE

\* faulty variant: the test of m_settings.denoiseApply is missing
NeedToDenoiseIgnoresApply(apply, frame, maxF, first, everyN) ==
  IF frame = maxF THEN TRUE
  ELSE IF (~first) /\ frame = 0 THEN FALSE
  ELSE IF CMod(frame, everyN) = 0 THEN TRUE
  ELSE FALSE

\* bool needToDenoise() const
NeedToDenoise(apply, frame, maxF, first, everyN) ==
  IF apply
    THEN IF frame = maxF THEN TRUE
         ELSE IF (~first) /\ frame = 0 THEN FALSE
         ELSE IF CMod(frame, everyN) = 0 THEN TRUE
         ELSE FALSE
    ELSE FALSE

needToDenoise ==
  NeedToDenoise(denoiseApply, m_frame, maxFrames, denoiseFirstFrame, denoiseEveryNFrames)

\* faulty variant: the display test merged with the cadence test (frame % N == 0)
ShowDenoisedImageMerged(apply, frame, maxF, first, everyN) ==
  apply /\ ((CMod(frame, everyN) = 0) \/ first \/ (frame >= maxF))

\* bool showDenoisedImage() const
ShowDenoisedImage(apply, frame, maxF, first, everyN) ==
  apply /\ ((frame >= everyN) \/ first \/ (frame >= maxF))

\* void resetFrame()
ResetFrameValue == -1

\* faulty variant: resetting a counter that is already reset restarts it
ResetFrameToggle(frame) == IF frame = ResetFrameValue THEN 0 ELSE ResetFrameValue

\* void resetFrame(): m_frame after the call, from m_frame before it
ResetFrame(frame) == ResetFrameValue

\* faulty variant: updateFrame does not reset on a camera change
UpdateFrameBaseNoReset(frame, changed) == frame

\* bool updateFrame(): the value of m_frame before the test against maxFrames
UpdateFrameBase(frame, changed) == IF changed THEN ResetFrameValue ELSE frame

\* bool updateFrame(): the value returned
UpdateFrameRet(frame, changed, maxF) == ~(UpdateFrameBase(frame, changed) >= maxF)

\* faulty variant: "if(m_frame > m_settings.maxFrames)"
UpdateFrameFrameOffByOne(frame, changed, maxF) ==
  IF UpdateFrameBase(frame, changed) > maxF
    THEN UpdateFrameBase(frame, changed)
    ELSE UpdateFrameBase(frame, changed) + 1

\* faulty variant: "++m_frame" is missing
UpdateFrameFrameNoIncrement(frame, changed, maxF) == UpdateFrameBase(frame, changed)

\* bool updateFrame(): m_frame after the call
UpdateFrameFrame(frame, changed, maxF) ==
  IF UpdateFrameBase(frame, changed) >= maxF
    THEN UpdateFrameBase(frame, changed)
    ELSE UpdateFrameBase(frame, changed) + 1

(* ---------------------- Vulkan / Cuda device side ---------------------- *)
\* pipeline stage in which a recorded command executes
StageOf(c) ==
  CASE c = "update"   -> "TRANSFER"
    [] c = "raytrace" -> "RAY_TRACING_SHADER"
    [] c = "copyin"   -> "TRANSFER"
    [] c = "copyout"  -> "COMPUTE_SHADER"
    [] c = "tonemap"  -> "COMPUTE_SHADER"
    [] c = "ui"       -> "COLOR_ATTACHMENT_OUTPUT"

\* stageMask of the wait semaphore added to the application frame
WaitStageMask == {"COLOR_ATTACHMENT_OUTPUT"}

\* a command of a batch may start: every semaphore wait of the batch whose
\* stage mask covers the command's stage has been satisfied
CanStart(b, c) ==
  \A w \in b.waits : (StageOf(c) \in w.stages) => sem >= w.value

FramesInFlight == Cardinality({i \in 1..Len(queue) : queue[i].kind = "frame"})

\* number of application frames submitted since batch i of the queue was recorded,
\* the frame that recorded it included
FramesSince(i) == Cardinality({j \in i..Len(queue) : queue[j].kind = "frame"})

\* m_app->getFrameCycleIndex() of the frame that recorded batch i, counted from the
\* index of the frame now starting (the index advances by one per application frame)
CycleIndexOf(i) ==
  (MaxFramesInFlight - (FramesSince(i) % MaxFramesInFlight)) % MaxFramesInFlight

\* faulty variant: one command frame is used by every frame
CommandFrameShared(cycle) == 0

\* "m_commandFrames[m_app->getFrameCycleIndex()]": the command frame a frame records in
CommandFrame(cycle) == cycle

\* a submitted command buffer recorded by onRender, or a denoise, is still in flight
DeviceBusy ==
  \/ cuda # <<>>
  \/ \E i \in 1..Len(queue) : \E j \in 1..Len(queue[i].cmds) : queue[i].cmds[j] # "ui"

\* history record of a step: op is "none", "update", "resize", "keyM", "drop", "dropHdr"
\* or "destroy"
Ev(op, prior, changed, ret, busy, size) ==
  [op |-> op, prior |-> prior, changed |-> changed, ret |-> ret, busy |-> busy, size |-> size]

NoEv == Ev("none", 0, FALSE, FALSE, FALSE, 0)

Init ==
  /\ m_frame = -1
  /\ maxFrames = MaxMaxFrames
  /\ denoiseApply = TRUE
  /\ denoiseFirstFrame = FALSE
  /\ denoiseEveryNFrames = MaxEveryN
  /\ m_fenceValue = 0
  /\ sceneValid = FALSE
  /\ camChanged = FALSE
  /\ supportsOptix = TRUE
  /\ pc = "events"
  /\ cmd = 0
  /\ rec = <<<<>>, <<>>>>
  /\ appWait = {}
  /\ appCmds = <<>>
  /\ gbufSize = 1
  /\ cudaSize = 1
  /\ tonemapInput = "Result"
  /\ queue = <<>>
  /\ cuda = <<>>
  /\ sem = 0
  /\ steps = <<>>
  /\ issued = <<>>
  /\ waited = <<>>
  /\ nden = 0
  /\ sub2 = 0
  /\ didReset = FALSE
  /\ ev = NoEv
  /\ denFrames = <<>>
  /\ cfgFixed = TRUE


(* ------------------------- resize and file drop ------------------------ *)
\* faulty variant: createGbuffers does not call resetFrame
CreateGbuffersNoReset(s) ==
  /\ gbufSize' = s
  /\ cudaSize' = IF supportsOptix THEN s ELSE cudaSize
  /\ m_frame' = m_frame

\* faulty variant: createGbuffers does not call m_denoiser->allocateBuffers
CreateGbuffersNoAllocate(s) ==
  /\ gbufSize' = s
  /\ cudaSize' = cudaSize
  /\ m_frame' = ResetFrameValue

\* void createGbuffers(size): new G-Buffers, new denoiser buffers, resetFrame
CreateGbuffers(s) ==
  /\ gbufSize' = s
  /\ cudaSize' = IF supportsOptix THEN s ELSE cudaSize
  /\ m_frame' = ResetFrameValue

\* void onResize(width, height)
OnResize(s) ==
  /\ pc = "events"
  /\ CreateGbuffers(s)
  /\ tonemapInput' = "Result"
  /\ didReset' = TRUE
  /\ ev' = Ev("resize", m_frame, FALSE, FALSE, DeviceBusy, s)
  /\ denFrames' = <<>> /\ cfgFixed' = TRUE
  /\ UNCHANGED <<settingsVars, m_fenceValue, envVars, pc, recVars, gpuVars, steps, histVars>>

\* void onFileDrop(filename): waits for the device, loads, resetFrame (twice for .hdr)
OnFileDrop(kind, loaded) ==
  /\ pc = "events"
  /\ queue = <<>>
  /\ sceneValid' = IF kind = "gltf" THEN loaded ELSE sceneValid
  /\ m_frame' = IF kind = "hdr" THEN ResetFrame(ResetFrame(m_frame)) ELSE ResetFrame(m_frame)
  /\ didReset' = TRUE
  /\ ev' = Ev(IF kind = "hdr" THEN "dropHdr" ELSE "drop", m_frame, FALSE, FALSE, FALSE, 0)
  /\ denFrames' = <<>> /\ cfgFixed' = TRUE
  /\ UNCHANGED <<settingsVars, m_fenceValue, camChanged, supportsOptix, pc, recVars,
                 bufVars, tonemapInput, gpuVars, steps, histVars>>

\* the camera element moved the camera or changed its field of view
CameraMove ==
  /\ pc = "events"
  /\ ~camChanged
  /\ camChanged' = TRUE
  /\ didReset' = FALSE
  /\ ev' = NoEv
  /\ UNCHANGED runVars
  /\ UNCHANGED <<m_frame, settingsVars, m_fenceValue, sceneValid, supportsOptix, pc,
                 recVars, bufVars, tonemapInput, gpuVars, steps, histVars>>

(* ------------------------------ onUIRender ----------------------------- *)
\* the widget the user changed during this onUIRender call
UIChanges ==
  {[kind |-> "none", val |-> 0], [kind |-> "keyM", val |-> 0], [kind |-> "raytracing", val |-> 0]}
  \cup {[kind |-> "environment", val |-> 0], [kind |-> "blend", val |-> 0]}
  \cup {[kind |-> "frames", val |-> v] : v \in 1..MaxMaxFrames}
  \cup {[kind |-> "apply", val |-> 0], [kind |-> "first", val |-> 0]}
  \cup {[kind |-> "everyN", val |-> n] : n \in 1..MaxEveryN}

\* faulty variant: the Frames entry does not request a reset
UIResetsNotFrames(ch) == ch.kind \in {"keyM", "raytracing", "environment"}

\* faulty variant: the N-frames slider requests a reset as well
UIResetsCadence(ch) == ch.kind \in {"keyM", "raytracing", "environment", "frames", "everyN"}

\* the changes after which onUIRender calls resetFrame ("reset |= ...")
UIResets(ch) == ch.kind \in {"keyM", "raytracing", "environment", "frames"}

\* void onUIRender()
OnUIRender(ch) ==
  /\ pc = "events"
  /\ FramesInFlight < MaxFramesInFlight
  /\ ch.kind = "frames" => ch.val # maxFrames
  /\ ch.kind = "everyN" => ch.val # denoiseEveryNFrames
  /\ maxFrames' = IF ch.kind = "frames" THEN ch.val ELSE maxFrames
  /\ denoiseApply' = IF ch.kind = "apply" THEN ~denoiseApply ELSE denoiseApply
  /\ denoiseFirstFrame' = IF ch.kind = "first" THEN ~denoiseFirstFrame ELSE denoiseFirstFrame
  /\ denoiseEveryNFrames' = IF ch.kind = "everyN" THEN ch.val ELSE denoiseEveryNFrames
  /\ IF ch.kind = "keyM"
       THEN CreateGbuffers(gbufSize)
       ELSE /\ m_frame' = IF UIResets(ch) THEN ResetFrameValue ELSE m_frame
            /\ UNCHANGED bufVars
  /\ didReset' = UIResets(ch)
  /\ ev' = IF ch.kind = "keyM" THEN Ev("keyM", m_frame, FALSE, FALSE, DeviceBusy, gbufSize) ELSE NoEv
  /\ denFrames' = IF UIResets(ch) THEN <<>> ELSE denFrames
  /\ cfgFixed' = IF UIResets(ch) THEN TRUE
                  ELSE IF ch.kind \in {"apply", "first", "everyN"} THEN FALSE ELSE cfgFixed
  /\ tonemapInput' = IF ShowDenoisedImage(denoiseApply', m_frame', maxFrames',
                                          denoiseFirstFrame', denoiseEveryNFrames')
                       THEN "Denoised" ELSE "Result"
  /\ pc' = "render"
  /\ UNCHANGED <<m_fenceValue, envVars, recVars, gpuVars, steps, histVars>>

(* ------------------------------- onRender ------------------------------ *)
\* faulty variant: updateFrame is called before the scene is tested
OnRenderInvalidUpdatesFrame ==
  /\ pc = "render"
  /\ ~sceneValid
  /\ m_frame' = UpdateFrameFrame(m_frame, camChanged, maxFrames)
  /\ camChanged' = FALSE
  /\ pc' = "submit"
  /\ didReset' = camChanged
  /\ ev' = NoEv
  /\ UNCHANGED runVars
  /\ UNCHANGED <<settingsVars, m_fenceValue, sceneValid, supportsOptix, recVars, bufVars,
                 tonemapInput, gpuVars, steps, histVars>>

\* onRender: the scene is not valid
OnRenderInvalid ==
  /\ pc = "render"
  /\ ~sceneValid
  /\ pc' = "submit"
  /\ didReset' = FALSE
  /\ ev' = NoEv
  /\ UNCHANGED runVars
  /\ UNCHANGED <<m_frame, settingsVars, m_fenceValue, envVars, recVars, bufVars,
                 tonemapInput, gpuVars, steps, histVars>>

\* onRender: updateFrame returned false
OnRenderStopped ==
  /\ pc = "render"
  /\ sceneValid
  /\ ~UpdateFrameRet(m_frame, camChanged, maxFrames)
  /\ m_frame' = UpdateFrameFrame(m_frame, camChanged, maxFrames)
  /\ camChanged' = FALSE
  /\ didReset' = camChanged
  /\ ev' = Ev("update", m_frame, camChanged, UpdateFrameRet(m_frame, camChanged, maxFrames), FALSE, 0)
  /\ denFrames' = IF camChanged THEN <<>> ELSE denFrames
  /\ cfgFixed' = (camChanged \/ cfgFixed)
  /\ pc' = "submit"
  /\ UNCHANGED <<settingsVars, m_fenceValue, sceneValid, supportsOptix, recVars, bufVars,
                 tonemapInput, gpuVars, steps, histVars>>

\* onRender: updateFrame returned true; reset the pool, begin cmdBuffer[0],
\* update the frame-info buffer
OnRenderBegin ==
  /\ pc = "render"
  /\ sceneValid
  /\ UpdateFrameRet(m_frame, camChanged, maxFrames)
  /\ m_frame' = UpdateFrameFrame(m_frame, camChanged, maxFrames)
  /\ camChanged' = FALSE
  /\ didReset' = camChanged
  /\ ev' = Ev("update", m_frame, camChanged, UpdateFrameRet(m_frame, camChanged, maxFrames), FALSE, 0)
  /\ denFrames' = IF camChanged THEN <<>> ELSE denFrames
  /\ cfgFixed' = (camChanged \/ cfgFixed)
  /\ cmd' = 0
  /\ rec' = << <<"update">>, <<>> >>
  /\ steps' = <<"update">>
  /\ pc' = "raytrace"
  /\ UNCHANGED <<settingsVars, m_fenceValue, sceneValid, supportsOptix, appWait, appCmds,
                 bufVars, tonemapInput, gpuVars, histVars>>

\* faulty variant: the denoise branch is not under #ifdef NVP_SUPPORTS_OPTIX7
RaytraceSceneNoIfdef ==
  /\ pc = "raytrace"
  /\ rec' = [rec EXCEPT ![cmd + 1] = Append(@, "raytrace")]
  /\ steps' = Append(steps, "raytrace")
  /\ pc' = IF needToDenoise THEN "copyin" ELSE "tonemap"
  /\ didReset' = FALSE
  /\ ev' = NoEv
  /\ UNCHANGED runVars
  /\ UNCHANGED <<m_frame, settingsVars, m_fenceValue, envVars, cmd, appWait, appCmds,
                 bufVars, tonemapInput, gpuVars, histVars>>

\* raytraceScene(cmd), then the test "if(needToDenoise())"
RaytraceScene ==
  /\ pc = "raytrace"
  /\ rec' = [rec EXCEPT ![cmd + 1] = Append(@, "raytrace")]
  /\ steps' = Append(steps, "raytrace")
  /\ pc' = IF supportsOptix /\ needToDenoise THEN "copyin" ELSE "tonemap"
  /\ didReset' = FALSE
  /\ ev' = NoEv
  /\ UNCHANGED runVars
  /\ UNCHANGED <<m_frame, settingsVars, m_fenceValue, envVars, cmd, appWait, appCmds,
                 bufVars, tonemapInput, gpuVars, histVars>>

\* faulty variant: the copy-in is not recorded
CopyImagesToCudaOmitted ==
  /\ pc = "copyin"
  /\ pc' = "submit1"
  /\ UNCHANGED <<m_frame, settingsVars, m_fenceValue, envVars, recVars,
                 bufVars, tonemapInput, gpuVars, steps, histVars>>
  /\ didReset' = FALSE
  /\ ev' = NoEv
  /\ UNCHANGED runVars

\* copyImagesToCuda(cmd); vkEndCommandBuffer(cmd)
CopyImagesToCuda ==
  /\ pc = "copyin"
  /\ rec' = [rec EXCEPT ![cmd + 1] = Append(@, "copyin")]
  /\ steps' = Append(steps, "copyin")
  /\ pc' = "submit1"
  /\ UNCHANGED <<m_frame, settingsVars, m_fenceValue, envVars, cmd, appWait, appCmds,
                 bufVars, tonemapInput, gpuVars, histVars>>
  /\ didReset' = FALSE
  /\ ev' = NoEv
  /\ UNCHANGED runVars


\* the denoise-active frame the CPU thread is in, 0 when it is in none
CurDid == IF \E i \in 1..Len(steps) : steps[i] = "submit" THEN nden ELSE 0

\* faulty variant: ".value = m_fenceValue++"
SignalValuePostIncrement(fence) == fence

\* ".value = ++m_fenceValue": value of the signal semaphore of the first submission
SignalValue(fence) == fence + 1

\* vkQueueSubmit2 of cmdBuffer[0] with signal value ++m_fenceValue
QueueSubmit2 ==
  /\ pc = "submit1"
  /\ nden < MaxDenoise
  /\ m_fenceValue' = m_fenceValue + 1
  /\ nden' = nden + 1
  /\ queue' = Append(queue, [kind |-> "first", did |-> nden + 1, cmds |-> rec[cmd + 1],
                             pos |-> 0, sig |-> SignalValue(m_fenceValue), waits |-> {}])
  /\ issued' = Append(issued, [by |-> "render", value |-> SignalValue(m_fenceValue),
                               did |-> nden + 1])
  /\ steps' = Append(steps, "submit")
  /\ pc' = "denoise"
  /\ didReset' = FALSE
  /\ ev' = NoEv
  /\ UNCHANGED runVars
  /\ UNCHANGED <<m_frame, settingsVars, envVars, recVars, bufVars, tonemapInput,
                 cuda, sem, waited, sub2>>

\* DenoiserOptix::denoiseImageBuffer(fenceValue, blend): value the Cuda stream waits on
DenoiseWaitValue(fence) == fence

\* DenoiserOptix::denoiseImageBuffer(fenceValue, blend): value signalled on completion,
\* which is also left in fenceValue
DenoiseSignalValue(fence) == fence + 1

\* faulty variant: the value before the increment is handed to the denoiser
DenoiseArgStale(fence) == fence - 1

\* denoiseImage(): the fence value handed to denoiseImageBuffer
DenoiseArg(fence) == fence

\* denoiseImage(): the denoiser work is queued on the Cuda stream, the call returns
DenoiseImage ==
  /\ pc = "denoise"
  /\ cuda' = Append(cuda, [did |-> nden, wait |-> DenoiseWaitValue(DenoiseArg(m_fenceValue)),
                           signal |-> DenoiseSignalValue(DenoiseArg(m_fenceValue)), st |-> "queued"])
  /\ m_fenceValue' = DenoiseSignalValue(DenoiseArg(m_fenceValue))
  /\ waited' = Append(waited, [by |-> "denoise", value |-> DenoiseWaitValue(DenoiseArg(m_fenceValue)),
                               did |-> nden])
  /\ issued' = Append(issued, [by |-> "denoise", value |-> DenoiseSignalValue(DenoiseArg(m_fenceValue)),
                               did |-> nden])
  /\ steps' = Append(steps, "denoise")
  /\ pc' = "addwait"
  /\ didReset' = FALSE
  /\ ev' = NoEv
  /\ denFrames' = Append(denFrames, m_frame)
  /\ cfgFixed' = cfgFixed
  /\ UNCHANGED <<m_frame, settingsVars, envVars, recVars, bufVars, tonemapInput,
                 queue, sem, nden, sub2>>

\* faulty variant: the application waits on the value the denoiser waits on
AppWaitValueStale(fence) == fence - 1

\* faulty variant: the application waits on a value nothing signals
AppWaitValueAhead(fence) == fence + 1

\* ".value = m_fenceValue" of the wait semaphore
AppWaitValue(fence) == fence

\* m_app->addWaitSemaphore(wait_semaphore)
AddWaitSemaphore ==
  /\ pc = "addwait"
  /\ appWait' = appWait \cup {[value |-> AppWaitValue(m_fenceValue), stages |-> WaitStageMask]}
  /\ waited' = Append(waited, [by |-> "app", value |-> AppWaitValue(m_fenceValue), did |-> nden])
  /\ steps' = Append(steps, "addwait")
  /\ pc' = "copyout"
  /\ didReset' = FALSE
  /\ ev' = NoEv
  /\ UNCHANGED runVars
  /\ UNCHANGED <<m_frame, settingsVars, m_fenceValue, envVars, cmd, rec, appCmds, bufVars,
                 tonemapInput, gpuVars, issued, nden, sub2>>

\* faulty variant: the CPU waits for the semaphore before recording cmdBuffer[1]
CopyCudaImagesToVulkanBlocking ==
  /\ pc = "copyout"
  /\ sem >= m_fenceValue
  /\ cmd' = 1
  /\ rec' = [rec EXCEPT ![2] = <<"copyout">>]
  /\ steps' = Append(steps, "copyout")
  /\ pc' = "tonemap"
  /\ didReset' = FALSE
  /\ ev' = NoEv
  /\ UNCHANGED runVars
  /\ UNCHANGED <<m_frame, settingsVars, m_fenceValue, envVars, appWait, appCmds, bufVars,
                 tonemapInput, gpuVars, histVars>>

\* cmd = commandFrame.cmdBuffer[1]; vkBeginCommandBuffer; copyCudaImagesToVulkan(cmd)
CopyCudaImagesToVulkan ==
  /\ pc = "copyout"
  /\ cmd' = 1
  /\ rec' = [rec EXCEPT ![2] = <<"copyout">>]
  /\ steps' = Append(steps, "copyout")
  /\ pc' = "tonemap"
  /\ didReset' = FALSE
  /\ ev' = NoEv
  /\ UNCHANGED runVars
  /\ UNCHANGED <<m_frame, settingsVars, m_fenceValue, envVars, appWait, appCmds, bufVars,
                 tonemapInput, gpuVars, histVars>>

\* m_tonemapper->runCompute(cmd, size); vkEndCommandBuffer(cmd)
RunTonemap ==
  /\ pc = "tonemap"
  /\ rec' = [rec EXCEPT ![cmd + 1] = Append(@, "tonemap")]
  /\ steps' = Append(steps, "tonemap")
  /\ pc' = "prepend"
  /\ didReset' = FALSE
  /\ ev' = NoEv
  /\ UNCHANGED runVars
  /\ UNCHANGED <<m_frame, settingsVars, m_fenceValue, envVars, cmd, appWait, appCmds,
                 bufVars, tonemapInput, gpuVars, histVars>>

\* faulty variant: cmdBuffer[0] is handed over on every frame
PrependedFirstOnly == <<0>>

\* faulty variant: cmdBuffer[0] is handed over again with cmdBuffer[1]
PrependedBothBuffers == IF cmd = 1 THEN <<0, 1>> ELSE <<0>>

\* faulty variant: cmdBuffer[1] is handed over on every frame
PrependedSecondOnly == <<1>>

\* "submit_info.commandBuffer = cmd": the command buffers onRender hands over
PrependedBuffers == <<cmd>>

\* m_app->prependCommandBuffer(submit_info); onRender returns
PrependCommandBuffer ==
  /\ pc = "prepend"
  /\ appCmds' = PrependedBuffers \o appCmds
  /\ steps' = Append(steps, "prepend")
  /\ pc' = "submit"
  /\ didReset' = FALSE
  /\ ev' = NoEv
  /\ UNCHANGED runVars
  /\ UNCHANGED <<m_frame, settingsVars, m_fenceValue, envVars, cmd, rec, appWait, bufVars,
                 tonemapInput, gpuVars, histVars>>

(* ----------------------- application frame submission ------------------ *)
\* commands of the application frame: the prepended buffers, then the UI pass
RECURSIVE Recorded(_)
Recorded(bufs) == IF bufs = <<>> THEN <<>> ELSE rec[Head(bufs) + 1] \o Recorded(Tail(bufs))

FrameCommands == Recorded(appCmds) \o <<"ui">>

\* the application submits the frame: the prepended command buffers and its
\* own, waiting on the wait semaphores that were added during the frame
AppSubmitFrame ==
  /\ pc = "submit"
  /\ queue' = Append(queue, [kind |-> "frame", did |-> CurDid, cmds |-> FrameCommands,
                             pos |-> 0, sig |-> 0, waits |-> appWait])
  /\ appWait' = {}
  /\ appCmds' = <<>>
  /\ rec' = << <<>>, <<>> >>
  /\ cmd' = 0
  /\ sub2' = IF \E i \in 1..Len(appCmds) : appCmds[i] = 1 THEN sub2 + 1 ELSE sub2
  /\ steps' = <<>>
  /\ pc' = "events"
  /\ didReset' = FALSE
  /\ ev' = NoEv
  /\ UNCHANGED runVars
  /\ UNCHANGED <<m_frame, settingsVars, m_fenceValue, envVars, bufVars, tonemapInput,
                 cuda, sem, issued, waited, nden>>

(* ------------------------------ device steps --------------------------- *)
\* the Vulkan queue executes the next command of its oldest batch; the batch
\* completes with its last command and then signals its semaphore
QueueExec ==
  /\ queue # <<>>
  /\ LET b == Head(queue)
         c == b.cmds[b.pos + 1]
     IN /\ CanStart(b, c)
        /\ IF b.pos + 1 = Len(b.cmds)
             THEN /\ queue' = Tail(queue)
                  /\ sem' = IF b.sig # 0 THEN b.sig ELSE sem
             ELSE /\ queue' = <<[b EXCEPT !.pos = b.pos + 1]>> \o Tail(queue)
                  /\ sem' = sem
  /\ didReset' = FALSE
  /\ ev' = NoEv
  /\ UNCHANGED runVars
  /\ UNCHANGED <<m_frame, settingsVars, m_fenceValue, envVars, pc, recVars, bufVars,
                 tonemapInput, cuda, steps, histVars>>

\* the Cuda stream passes its wait on the semaphore and the denoiser starts
DenoiserStart ==
  /\ cuda # <<>>
  /\ Head(cuda).st = "queued"
  /\ sem >= Head(cuda).wait
  /\ cuda' = <<[Head(cuda) EXCEPT !.st = "running"]>> \o Tail(cuda)
  /\ didReset' = FALSE
  /\ ev' = NoEv
  /\ UNCHANGED runVars
  /\ UNCHANGED <<m_frame, settingsVars, m_fenceValue, envVars, pc, recVars, bufVars,
                 tonemapInput, queue, sem, steps, histVars>>

\* the denoiser finishes and the Cuda stream signals the semaphore
DenoiserFinish ==
  /\ cuda # <<>>
  /\ Head(cuda).st = "running"
  /\ sem' = Head(cuda).signal
  /\ cuda' = Tail(cuda)
  /\ didReset' = FALSE
  /\ ev' = NoEv
  /\ UNCHANGED runVars
  /\ UNCHANGED <<m_frame, settingsVars, m_fenceValue, envVars, pc, recVars, bufVars,
                 tonemapInput, queue, steps, histVars>>

(* -------------------------------- teardown ----------------------------- *)
\* faulty variant: destroyResources without vkDeviceWaitIdle
OnDetachNoWait ==
  /\ pc = "events"
  /\ gbufSize' = 0
  /\ cudaSize' = IF supportsOptix THEN 0 ELSE cudaSize
  /\ pc' = "detached"
  /\ didReset' = FALSE
  /\ ev' = Ev("destroy", m_frame, FALSE, FALSE, queue # <<>> \/ cuda # <<>>, 0)
  /\ UNCHANGED runVars
  /\ UNCHANGED <<m_frame, settingsVars, m_fenceValue, envVars, recVars, tonemapInput,
                 gpuVars, steps, histVars>>

\* void onDetach(): vkDeviceWaitIdle, then destroyResources
OnDetach ==
  /\ pc = "events"
  /\ queue = <<>>
  /\ gbufSize' = 0
  /\ cudaSize' = IF supportsOptix THEN 0 ELSE cudaSize
  /\ pc' = "detached"
  /\ didReset' = FALSE
  /\ ev' = Ev("destroy", m_frame, FALSE, FALSE, queue # <<>> \/ cuda # <<>>, 0)
  /\ UNCHANGED runVars
  /\ UNCHANGED <<m_frame, settingsVars, m_fenceValue, envVars, recVars, tonemapInput,
                 gpuVars, steps, histVars>>

(* ----------------------------- specification --------------------------- *)
Next ==
  \/ \E s \in 1..MaxSize : OnResize(s)
  \/ \E kind \in {"gltf", "hdr", "other"}, loaded \in BOOLEAN : OnFileDrop(kind, loaded)
  \/ CameraMove
  \/ \E ch \in UIChanges : OnUIRender(ch)
  \/ OnRenderInvalid
  \/ OnRenderStopped
  \/ OnRenderBegin
  \/ RaytraceScene
  \/ CopyImagesToCuda
  \/ QueueSubmit2
  \/ DenoiseImage
  \/ AddWaitSemaphore
  \/ CopyCudaImagesToVulkan
  \/ RunTonemap
  \/ PrependCommandBuffer
  \/ AppSubmitFrame
  \/ QueueExec
  \/ DenoiserStart
  \/ DenoiserFinish
  \/ OnDetach

Spec == Init /\ [][Next]_vars

\* the build without NVP_SUPPORTS_OPTIX7: onAttach clears denoiseApply, and the
\* denoise branch of onRender is not compiled
InitNoOptix ==
  /\ m_frame = -1
  /\ maxFrames = MaxMaxFrames
  /\ denoiseApply = FALSE
  /\ denoiseFirstFrame = FALSE
  /\ denoiseEveryNFrames = MaxEveryN
  /\ m_fenceValue = 0
  /\ sceneValid = FALSE
  /\ camChanged = FALSE
  /\ supportsOptix = FALSE
  /\ pc = "events"
  /\ cmd = 0
  /\ rec = <<<<>>, <<>>>>
  /\ appWait = {}
  /\ appCmds = <<>>
  /\ gbufSize = 1
  /\ cudaSize = 0
  /\ tonemapInput = "Result"
  /\ queue = <<>>
  /\ cuda = <<>>
  /\ sem = 0
  /\ steps = <<>>
  /\ issued = <<>>
  /\ waited = <<>>
  /\ nden = 0
  /\ sub2 = 0
  /\ didReset = FALSE
  /\ ev = NoEv
  /\ denFrames = <<>>
  /\ cfgFixed = TRUE

NextNoOptix ==
  \/ \E s \in 1..MaxSize : OnResize(s)
  \/ \E kind \in {"gltf", "hdr", "other"}, loaded \in BOOLEAN : OnFileDrop(kind, loaded)
  \/ CameraMove
  \/ \E ch \in UIChanges : OnUIRender(ch)
  \/ OnRenderInvalid
  \/ OnRenderStopped
  \/ OnRenderBegin
  \/ RaytraceScene
  \/ RunTonemap
  \/ PrependCommandBuffer
  \/ AppSubmitFrame
  \/ QueueExec
  \/ OnDetach

SpecNoOptix == InitNoOptix /\ [][NextNoOptix]_vars

\* the Vulkan queue and the Cuda stream execute the work submitted to them
FairDevice == WF_vars(QueueExec) /\ WF_vars(DenoiserStart) /\ WF_vars(DenoiserFinish)

\* the changes the user makes in the runs checked for progress: none, or a denoiser setting
LiveChanges == {ch \in UIChanges : ch.kind \in {"none", "apply", "first", "everyN"}}

\* the frame loop with a scene loaded by file drop, no resize, no change of maxFrames
\* and no teardown
NextLive ==
  \/ \E kind \in {"gltf", "hdr", "other"}, loaded \in BOOLEAN : OnFileDrop(kind, loaded)
  \/ CameraMove
  \/ \E ch \in LiveChanges : OnUIRender(ch)
  \/ OnRenderInvalid
  \/ OnRenderStopped
  \/ OnRenderBegin
  \/ RaytraceScene
  \/ CopyImagesToCuda
  \/ QueueSubmit2
  \/ DenoiseImage
  \/ AddWaitSemaphore
  \/ CopyCudaImagesToVulkan
  \/ RunTonemap
  \/ PrependCommandBuffer
  \/ AppSubmitFrame
  \/ QueueExec
  \/ DenoiserStart
  \/ DenoiserFinish

SpecFairDevice == Init /\ [][NextLive]_vars /\ FairDevice

\* the application keeps calling onUIRender and onRender and submitting the frame
FairLoop ==
  /\ WF_vars(\E ch \in LiveChanges : OnUIRender(ch))
  /\ WF_vars(OnRenderInvalid \/ OnRenderStopped \/ OnRenderBegin \/ RaytraceScene
               \/ CopyImagesToCuda \/ QueueSubmit2 \/ DenoiseImage \/ AddWaitSemaphore
               \/ CopyCudaImagesToVulkan \/ RunTonemap \/ PrependCommandBuffer
               \/ AppSubmitFrame)

SpecFairLoop == Init /\ [][NextLive]_vars /\ FairDevice /\ FairLoop


(* ------------------------------- claims -------------------------------- *)
\* the test "if(needToDenoise())" of the current frame has been taken
Decided == Len(steps) >= 3

\* the current frame took the denoise branch of onRender
DenoiseBranch == Decided /\ steps[3] = "copyin"

C1_Iff(frame, maxF, first, everyN) ==
  (frame = maxF) \/ (frame % everyN = 0 /\ ~(frame = 0 /\ ~first))

C1_FiveRules(apply, frame, maxF, first, everyN) ==
  IF ~apply THEN FALSE
  ELSE IF frame = maxF THEN TRUE
  ELSE IF (~first) /\ frame = 0 THEN FALSE
  ELSE IF frame % everyN = 0 THEN TRUE
  ELSE FALSE

\* C1: for frameIndex in [0, maxFrames] and everyNFrames >= 1, needToDenoise with
\* denoising enabled is true iff frameIndex = maxFrames or (frameIndex % everyNFrames = 0
\* and not (frameIndex = 0 and not denoiseFirstFrame)); it equals the five rules of the
\* cadence policy evaluated in order, and it is the branch onRender takes.
C1_NeedToDenoiseRule ==
  /\ (m_frame \in 0..maxFrames) =>
       /\ needToDenoise = C1_FiveRules(denoiseApply, m_frame, maxFrames,
                                       denoiseFirstFrame, denoiseEveryNFrames)
       /\ NeedToDenoise(TRUE, m_frame, maxFrames, denoiseFirstFrame, denoiseEveryNFrames)
            = C1_Iff(m_frame, maxFrames, denoiseFirstFrame, denoiseEveryNFrames)
  /\ (Decided /\ denoiseApply) =>
       (DenoiseBranch <=> C1_Iff(m_frame, maxFrames, denoiseFirstFrame, denoiseEveryNFrames))

C1_Witness ==
  /\ DenoiseBranch
  /\ m_frame = maxFrames
  /\ m_frame % denoiseEveryNFrames # 0

\* signal values requested by the render submissions, in order
RenderSignals == SelectSeq(issued, LAMBDA e : e.by = "render")
\* wait values requested by the denoise invocations, in order
DenoiseWaits == SelectSeq(waited, LAMBDA e : e.by = "denoise")
\* signal values requested by the denoise invocations, in order
DenoiseSignals == SelectSeq(issued, LAMBDA e : e.by = "denoise")
\* wait values added to the application frame, in order
AppWaits == SelectSeq(waited, LAMBDA e : e.by = "app")

\* C2: the k-th denoise invocation waits on the value signalled by the k-th render
\* submission, and no two denoise invocations wait on the same value.
C2_WaitEqualsSignal ==
  /\ Len(DenoiseWaits) <= Len(RenderSignals)
  /\ \A k \in 1..Len(DenoiseWaits) : DenoiseWaits[k].value = RenderSignals[k].value
  /\ \A j, k \in 1..Len(DenoiseWaits) : j # k => DenoiseWaits[j].value # DenoiseWaits[k].value

C2_Witness == Len(DenoiseWaits) >= 2

\* C3: the values signalled on the timeline semaphore are consecutive and strictly
\* increasing (1, 2, 3, ...), each denoise invocation waits on V and signals V+1, and
\* every waiter requests a value >= the signal it depends on.
C3_SignalsConsecutive ==
  /\ \A i \in 1..Len(issued) : issued[i].value = i
  /\ \A k \in 1..Len(DenoiseSignals) : DenoiseSignals[k].value = DenoiseWaits[k].value + 1
  /\ \A k \in 1..Len(DenoiseWaits) : DenoiseWaits[k].value >= RenderSignals[k].value
  /\ \A k \in 1..Len(AppWaits) : AppWaits[k].value >= DenoiseSignals[k].value
  /\ sem <= m_fenceValue

C3_Witness == Len(AppWaits) >= 2 /\ sem = 2 * MaxDenoise

\* the first command buffer of denoise-active frame d is still pending on the queue
FirstPending(d) == \E i \in 1..Len(queue) : queue[i].kind = "first" /\ queue[i].did = d

\* C4: the denoiser runs on the staged inputs of a frame only after the whole first
\* command buffer of that frame (ray trace and copy-in) has completed on the queue.
C4_DenoiseAfterCopyIn ==
  \A i \in 1..Len(cuda) : cuda[i].st = "running" => ~FirstPending(cuda[i].did)

C4_Witness == \E i \in 1..Len(cuda) : cuda[i].st = "running" /\ cuda[i].did = 2


\* the denoise of denoise-active frame d has not completed yet
DenoisePending(d) == \E i \in 1..Len(cuda) : cuda[i].did = d

\* C5: no command of the second command buffer of a denoise-active frame (copy-out,
\* tonemap) executes before the denoise of that frame has completed.
C5_SecondBufferAfterDenoise ==
  \A i \in 1..Len(queue) :
    (queue[i].kind = "frame" /\ queue[i].did # 0 /\ queue[i].pos >= 1)
      => ~DenoisePending(queue[i].did)

\* number of command buffers recorded in the current frame
RecordedBuffers == Cardinality({i \in 1..2 : rec[i] # <<>>})

\* onRender has returned from a frame it rendered
FrameRendered == pc = "submit" /\ steps # <<>>

\* C6: a rendered frame records one command buffer when needToDenoise is false and two
\* when it is true, submits directly to the queue iff it is denoise-active, and hands
\* exactly one command buffer to the application.
C6_OneOrTwoBuffers ==
  FrameRendered =>
    /\ RecordedBuffers = IF needToDenoise THEN 2 ELSE 1
    /\ (\E i \in 1..Len(steps) : steps[i] = "submit") <=> needToDenoise
    /\ needToDenoise => \E i \in 1..Len(issued) : issued[i].by = "render" /\ issued[i].did = nden
    /\ Len(appCmds) = 1

C6_Witness == FrameRendered /\ needToDenoise /\ RecordedBuffers = 2 /\ Len(appCmds) = 1

StepsDenoise == <<"update", "raytrace", "copyin", "submit", "denoise", "addwait",
                  "copyout", "tonemap", "prepend">>
StepsPlain == <<"update", "raytrace", "tonemap", "prepend">>

IsPrefix(p, q) == Len(p) <= Len(q) /\ \A i \in 1..Len(p) : p[i] = q[i]

\* state of the denoise handoff of the current frame
Orch ==
  IF ~(\E i \in 1..Len(steps) : steps[i] = "submit") THEN "Idle"
  ELSE IF ~(\E i \in 1..Len(steps) : steps[i] = "denoise") THEN "RenderSubmitted"
  ELSE IF ~(\E i \in 1..Len(steps) : steps[i] = "addwait") THEN "DenoiseRunning"
  ELSE "DenoiseComplete"

OrchNext(o) ==
  CASE o = "Idle" -> "RenderSubmitted"
    [] o = "RenderSubmitted" -> "DenoiseRunning"
    [] o = "DenoiseRunning" -> "DenoiseComplete"
    [] o = "DenoiseComplete" -> "Idle"

\* C7: a denoise-active frame takes the steps frame-info update, ray trace, copy-in,
\* first submission, denoise invocation, wait registration, copy-out, tonemap in this
\* order; any other frame takes update, ray trace, tonemap; the handoff goes
\* Idle -> RenderSubmitted -> DenoiseRunning -> DenoiseComplete -> Idle without
\* skipping or repeating a state.
C7_StepOrder ==
  /\ [](/\ IsPrefix(steps, StepsDenoise) \/ IsPrefix(steps, StepsPlain)
        /\ FrameRendered => steps = IF needToDenoise THEN StepsDenoise ELSE StepsPlain
        /\ Orch # "Idle" => needToDenoise)
  /\ [][Orch' # Orch => Orch' = OrchNext(Orch)]_vars

C7_Witness == FrameRendered /\ steps = StepsDenoise /\ nden = 2

\* the steps of onRender and of the application's frame submission
CpuStep ==
  \/ OnRenderInvalid \/ OnRenderStopped \/ OnRenderBegin \/ RaytraceScene
  \/ CopyImagesToCuda \/ QueueSubmit2 \/ DenoiseImage \/ AddWaitSemaphore
  \/ CopyCudaImagesToVulkan \/ RunTonemap \/ PrependCommandBuffer \/ AppSubmitFrame

\* C8: the CPU thread never waits for the denoiser: whatever the value of the
\* semaphore, the next step of onRender can be taken, and so can the next frame.
C8_CpuNeverBlocks ==
  /\ (pc \notin {"events", "detached"} /\ ~(pc = "submit1" /\ nden >= MaxDenoise))
       => ENABLED CpuStep
  /\ (pc = "events" /\ FramesInFlight < MaxFramesInFlight)
       => ENABLED (\E ch \in UIChanges : OnUIRender(ch))

C8_Witness ==
  /\ pc = "raytrace"
  /\ nden >= 1
  /\ CurDid = 0
  /\ \E i \in 1..Len(cuda) : cuda[i].did = nden /\ cuda[i].st = "queued"
  /\ sem < m_fenceValue - 1

\* C9: when a frame starts recording, the second command buffer of every earlier
\* denoise-active frame has been submitted.
C9_SecondSubmittedBeforeNext ==
  (pc \notin {"events", "render", "submit"} \/ steps # <<>>)
    => sub2 = nden - (IF CurDid # 0 THEN 1 ELSE 0)

C9_Witness == pc = "raytrace" /\ sub2 = 1 /\ nden = 1

\* C10: frameIndex stays in [-1, maxFrames]; it decreases only in a step that resets
\* it, and a step that advances it leaves it at most maxFrames.
C10_FrameRange ==
  /\ [](m_frame >= -1 /\ m_frame <= maxFrames)
  /\ [][(m_frame' < m_frame => didReset') /\ (m_frame' > m_frame => m_frame' <= maxFrames')]_vars

C10_Witness == m_frame = maxFrames /\ maxFrames < MaxMaxFrames /\ pc = "events"


\* C11: updateFrame called after a camera change leaves frameIndex at 0 and returns
\* true, whatever frameIndex was before, maxFrames included.
C11_CameraChangeRestarts ==
  (ev.op = "update" /\ ev.changed) => (m_frame = 0 /\ ev.ret /\ pc = "raytrace")

C11_Witness ==
  ev.op = "update" /\ ev.changed /\ ev.prior = maxFrames /\ m_frame = 0 /\ pc = "raytrace"

\* C12: updateFrame called without a camera change returns false and leaves frameIndex
\* unchanged when frameIndex >= maxFrames; otherwise it adds exactly 1 and returns true.
C12_UpdateFrameNoChange ==
  (ev.op = "update" /\ ~ev.changed) =>
    IF ev.prior >= maxFrames
      THEN ~ev.ret /\ m_frame = ev.prior /\ pc = "submit" /\ steps = <<>>
      ELSE ev.ret /\ m_frame = ev.prior + 1 /\ pc = "raytrace"

C12_Witness == ev.op = "update" /\ ~ev.changed /\ ev.prior = maxFrames /\ ~ev.ret

C13_Rule(apply, frame, maxF, first, everyN) ==
  apply /\ (frame >= everyN \/ first \/ frame >= maxF)

\* C13: showDenoisedImage is true iff denoising is enabled and (frameIndex >= everyNFrames
\* or denoiseFirstFrame or frameIndex >= maxFrames), for frameIndex in [-1, maxFrames]; it
\* is the test onUIRender uses to select the tonemapper input, not the cadence test.
C13_ShowDenoisedRule ==
  pc = "render" =>
    /\ m_frame \in -1..maxFrames
    /\ (tonemapInput = "Denoised") <=>
         C13_Rule(denoiseApply, m_frame, maxFrames, denoiseFirstFrame, denoiseEveryNFrames)

C13_Witness ==
  /\ pc = "render"
  /\ tonemapInput = "Denoised"
  /\ ~denoiseFirstFrame
  /\ m_frame < maxFrames
  /\ CMod(m_frame, denoiseEveryNFrames) # 0

\* the tonemap pass of the current frame has been recorded
TonemapRecorded == \E i \in 1..Len(steps) : steps[i] = "tonemap"

\* C14: a frame rendered with frameIndex 0 and denoiseFirstFrame false is tonemapped
\* from the raw result, not from the denoised buffer.
C14_FrameZeroShowsResult ==
  (TonemapRecorded /\ m_frame = 0 /\ ~denoiseFirstFrame) => tonemapInput = "Result"

\* C15: without denoiser support the cadence stays disabled: denoiseApply is false and
\* needToDenoise and showDenoisedImage are false in every state.
C15_PermanentlyDisabled ==
  ~supportsOptix =>
    /\ ~denoiseApply
    /\ ~needToDenoise
    /\ ~ShowDenoisedImage(denoiseApply, m_frame, maxFrames, denoiseFirstFrame,
                          denoiseEveryNFrames)

\* C16: without denoiser support every rendered frame is one command buffer, with no
\* timeline signal, denoise invocation, copy-in, copy-out or wait semaphore, whatever
\* the cadence settings are.
C16_SingleBufferWithoutOptix ==
  ~supportsOptix =>
    /\ pc \notin {"copyin", "submit1", "denoise", "addwait", "copyout"}
    /\ nden = 0 /\ m_fenceValue = 0 /\ issued = <<>> /\ waited = <<>>
    /\ cuda = <<>> /\ appWait = {} /\ sem = 0
    /\ rec[2] = <<>>
    /\ \A i \in 1..Len(queue) :
         /\ queue[i].kind = "frame" /\ queue[i].sig = 0 /\ queue[i].waits = {}
         /\ \A j \in 1..Len(queue[i].cmds) : queue[i].cmds[j] \notin {"copyin", "copyout"}
    /\ (pc = "submit" /\ steps # <<>>) =>
         (steps = <<"update", "raytrace", "tonemap", "prepend">> /\ Len(appCmds) = 1)

C16_Witness ==
  /\ ~supportsOptix
  /\ pc = "submit" /\ steps = <<"update", "raytrace", "tonemap", "prepend">>
  /\ denoiseApply /\ needToDenoise

\* C17: the guide buffers and transfer buffers are not recreated while a submitted
\* command buffer or an in-flight denoise still references them.
C17_NoResizeWhileInFlight ==
  ev.op \in {"resize", "keyM"} => ~ev.busy

\* C18: immediately after onResize / createGbuffers the guide buffers have the requested
\* size and frameIndex is -1, and the next frame rendered from there is frame 0.
C18_ResizeResets ==
  /\ [](ev.op \in {"resize", "keyM"} => (m_frame = -1 /\ gbufSize = ev.size))
  /\ [][(m_frame = -1 /\ m_frame' # m_frame) => (m_frame' = 0 /\ pc' = "raytrace")]_vars

C18_Witness == ev.op = "resize" /\ ev.prior >= 1 /\ ev.size # 1 /\ m_frame = -1

\* C19: the denoiser's transfer buffers always have the size of the guide buffers.
C19_BuffersSameSize == gbufSize = cudaSize

C19_Witness == ev.op = "resize" /\ gbufSize = MaxSize /\ cudaSize = MaxSize

\* C20: destroyResources runs only once no submitted command buffer and no denoise is
\* in flight.
C20_DestroyAfterIdle ==
  (pc = "detached" \/ ev.op = "destroy") => (queue = <<>> /\ cuda = <<>> /\ ~ev.busy)

C20_Witness == pc = "detached" /\ ev.op = "destroy" /\ nden >= 1 /\ sub2 >= 1

\* the frames of a run to maxF on which the cadence asks for a denoise
C21_Frames(maxF, first, everyN) ==
  {f \in 1..maxF : f % everyN = 0} \cup {maxF} \cup (IF first THEN {0} ELSE {})

\* the last frame of the current run whose denoise decision has been carried out
FramesDone ==
  IF pc \in {"raytrace", "copyin", "submit1", "denoise"} THEN m_frame - 1 ELSE m_frame

\* C21: in a run from a reset with denoising enabled and unchanged settings, the frames
\* on which a denoise is issued are exactly the multiples of everyNFrames in
\* [1, maxFrames], maxFrames itself, and frame 0 iff denoiseFirstFrame; each once.
C21_DenoisedFrames ==
  (cfgFixed /\ denoiseApply) =>
    /\ {denFrames[i] : i \in 1..Len(denFrames)}
         = {f \in C21_Frames(maxFrames, denoiseFirstFrame, denoiseEveryNFrames) : f <= FramesDone}
    /\ \A i, j \in 1..Len(denFrames) : i # j => denFrames[i] # denFrames[j]

C21_Witness ==
  /\ cfgFixed /\ denoiseApply
  /\ m_frame = maxFrames /\ pc = "events"
  /\ Len(denFrames) = 2 /\ denFrames[1] < maxFrames /\ denFrames[2] = maxFrames
  /\ maxFrames % denoiseEveryNFrames # 0

\* C22: with denoising disabled needToDenoise is false for every frameIndex, so no frame
\* takes the denoise branch, signals the timeline semaphore, issues a denoise or records
\* a second command buffer while the flag stays false.
C22_DisabledNeverDenoises ==
  /\ [](~denoiseApply =>
          /\ \A f \in -1..MaxMaxFrames :
               ~NeedToDenoise(denoiseApply, f, maxFrames, denoiseFirstFrame, denoiseEveryNFrames)
          /\ pc \notin {"copyin", "submit1", "denoise", "addwait", "copyout"}
          /\ rec[2] = <<>> /\ appWait = {} /\ cmd = 0
          /\ FrameRendered => steps = StepsPlain)
  /\ [][(~denoiseApply /\ ~denoiseApply') =>
          (m_fenceValue' = m_fenceValue /\ issued' = issued /\ waited' = waited
             /\ nden' = nden /\ Len(cuda') <= Len(cuda))]_vars

C22_Witness ==
  /\ ~denoiseApply /\ FrameRendered /\ steps = StepsPlain
  /\ m_frame = maxFrames /\ CMod(m_frame, denoiseEveryNFrames) = 0
  /\ nden >= 1

\* C23: resetFrame is idempotent: called twice in a row (as onFileDrop does for an .hdr
\* file) it leaves the state it leaves when called once, frameIndex = -1, and changes
\* nothing else.
C23_ResetIdempotent ==
  /\ [](/\ \A f \in -1..MaxMaxFrames :
             ResetFrame(ResetFrame(f)) = ResetFrame(f) /\ ResetFrame(f) = -1
        /\ ev.op \in {"drop", "dropHdr"} => m_frame = -1)
  /\ [][ev'.op = "dropHdr" =>
          /\ m_frame' = ResetFrame(m_frame)
          /\ UNCHANGED <<settingsVars, m_fenceValue, envVars, recVars, bufVars, gpuVars,
                         steps, histVars>>]_vars

C23_Witness == ev.op = "dropHdr" /\ ev.prior >= 1 /\ m_frame = -1

\* this step is the queue executing command c of its oldest batch
QueueExecuted(c) ==
  /\ queue # <<>>
  /\ Head(queue).cmds[Head(queue).pos + 1] = c
  /\ \/ queue' = Tail(queue)
     \/ Len(queue') = Len(queue) /\ queue' # queue

\* the denoiser is reading the staged inputs and writing the staged output
DenoiserRunning == \E i \in 1..Len(cuda) : cuda[i].st = "running"

\* C24: the render queue never executes a copy-in (writes the staged inputs) or a
\* copy-out (reads the staged output) while the denoiser is running on those buffers.
C24_NoConcurrentAccess ==
  [][(QueueExecuted("copyin") \/ QueueExecuted("copyout")) => ~DenoiserRunning]_vars

\* C25: whenever showDenoisedImage is true, a denoise has been issued since the last
\* resetFrame and the last recreation of the G-Buffers, so the Denoised image the
\* tonemapper is given has been populated.
C25_DenoisedPopulated ==
  ShowDenoisedImage(denoiseApply, m_frame, maxFrames, denoiseFirstFrame, denoiseEveryNFrames)
    => denFrames # <<>>

\* C26: with denoising enabled and unchanged settings, the tonemap pass of frame
\* maxFrames, the last one executed, reads the Denoised image.
C26_FinalFrameShowsDenoised ==
  (TonemapRecorded /\ m_frame = maxFrames /\ denoiseApply /\ cfgFixed)
    => tonemapInput = "Denoised"

\* the application frame of denoise-active frame d is still pending on the queue
FramePending(d) == \E i \in 1..Len(queue) : queue[i].kind = "frame" /\ queue[i].did = d

\* C27: when the queue and the denoiser make progress, the timeline semaphore reaches
\* every value a waiter registered for, every queued denoise starts and finishes, and
\* the application frame carrying the second command buffer of every denoise-active
\* frame completes.
C27_WaitsSatisfied ==
  /\ \A k \in 1..(2 * MaxDenoise) :
       (\E i \in 1..Len(waited) : waited[i].value = k) ~> (sem >= k)
  /\ \A d \in 1..MaxDenoise :
       /\ DenoisePending(d) ~> ~DenoisePending(d)
       /\ FramePending(d) ~> ~FramePending(d)

C27_Witness ==
  /\ sem = 2 * MaxDenoise /\ sub2 = MaxDenoise /\ queue = <<>> /\ cuda = <<>>
  /\ Len(AppWaits) = MaxDenoise

\* C28: with a valid scene the accumulation terminates: frameIndex reaches maxFrames
\* unless a reset occurs first (or the behaviour has used up the MaxDenoise
\* denoise-active frames explored); and at maxFrames onRender returns without advancing
\* frameIndex, recording a command or issuing a denoise.
C28_AccumulationTerminates ==
  /\ sceneValid ~> (m_frame = maxFrames \/ didReset \/ (pc = "submit1" /\ nden >= MaxDenoise))
  /\ [][(pc = "render" /\ pc' # pc /\ sceneValid /\ ~camChanged /\ m_frame = maxFrames) =>
          /\ m_frame' = m_frame /\ pc' = "submit" /\ steps' = <<>>
          /\ UNCHANGED <<recVars, m_fenceValue, gpuVars, histVars, denFrames>>]_vars

C28_Witness ==
  /\ pc = "submit" /\ steps = <<>> /\ sceneValid /\ m_frame = maxFrames
  /\ denFrames # <<>> /\ queue = <<>> /\ cuda = <<>>

\* a command buffer of the command frame that the frame now starting will reset is
\* still pending on the queue
SlotPending ==
  \E i \in 1..Len(queue) :
    /\ \E j \in 1..Len(queue[i].cmds) : queue[i].cmds[j] # "ui"
    /\ CommandFrame(CycleIndexOf(i)) = CommandFrame(0)

\* C29: when onRender resets the command pool of its command frame, no command buffer
\* recorded from that command frame is pending, neither one handed to the application
\* nor a first command buffer that onRender submitted itself.
C29_PoolResetNotPending == pc = "render" => ~SlotPending

C29_Witness ==
  /\ pc = "render" /\ sceneValid /\ UpdateFrameRet(m_frame, camChanged, maxFrames)
  /\ \E i \in 1..Len(queue) : queue[i].kind = "first" /\ FramesSince(i) = 2

\* C30: a rendered frame that is not denoise-active hands exactly cmdBuffer[0] to the
\* application and adds no wait semaphore; the fence value changes, a wait semaphore is
\* added and onRender submits to the queue itself only in the denoise branch.
C30_PlainFrameEffect ==
  /\ []((FrameRendered /\ ~needToDenoise) =>
          /\ steps = StepsPlain /\ CurDid = 0
          /\ appWait = {} /\ appCmds = <<0>> /\ rec[2] = <<>>)
  /\ [][((m_fenceValue' # m_fenceValue)
            \/ (appWait' # appWait /\ appWait' # {})
            \/ (Len(queue') > Len(queue) /\ pc # "submit")) => DenoiseBranch']_vars

C30_Witness ==
  /\ FrameRendered /\ ~needToDenoise /\ denoiseApply
  /\ appCmds = <<0>> /\ m_fenceValue >= 2 /\ m_frame > 0

\* C31: onRender called with an invalid scene, or with updateFrame returning false,
\* records and submits nothing, issues no denoise, adds no wait semaphore and leaves the
\* fence value; with an invalid scene updateFrame is not called and frameIndex stays.
C31_EarlyReturnNoOp ==
  /\ []((pc = "submit" /\ steps = <<>>) =>
          (appCmds = <<>> /\ appWait = {} /\ rec = << <<>>, <<>> >> /\ CurDid = 0))
  /\ [][(pc = "render" /\ pc' # pc
            /\ (~sceneValid \/ ~UpdateFrameRet(m_frame, camChanged, maxFrames))) =>
          /\ pc' = "submit" /\ steps' = <<>>
          /\ UNCHANGED <<recVars, m_fenceValue, gpuVars, histVars, denFrames>>
          /\ ~sceneValid => (m_frame' = m_frame /\ camChanged' = camChanged)]_vars

C31_Witness ==
  /\ pc = "submit" /\ steps = <<>> /\ ~sceneValid
  /\ camChanged /\ m_frame = -1 /\ nden >= 1

\* C32: in onUIRender a change of a cadence setting (Denoise, First Frame, N-frames,
\* Blend) leaves frameIndex as it is, while a change of Depth, Samples, Frames or of
\* the environment, and the key M, set it to -1 in the same call; so does onFileDrop.
C32_WhichChangesReset ==
  [][/\ \A ch \in UIChanges : OnUIRender(ch) =>
          /\ ch.kind \in {"apply", "first", "everyN", "blend"} => m_frame' = m_frame
          /\ ch.kind \in {"raytracing", "environment", "frames", "keyM"} => m_frame' = -1
     /\ \A kind \in {"gltf", "hdr", "other"}, loaded \in BOOLEAN :
          OnFileDrop(kind, loaded) => m_frame' = -1]_vars

C32_Witness ==
  /\ pc = "render" /\ ~cfgFixed /\ m_frame >= 1 /\ denFrames # <<>>
  /\ denoiseFirstFrame /\ denoiseEveryNFrames = 1

====
